---------------------------- MODULE Spec2Model ----------------------------
(***************************************************************************)
(* A model of timg's Framebuffer (src/framebuffer.cc): the pixel store     *)
(* (the constructor, SetPixel, at), the colour parser (ParseColor, on top  *)
(* of a model of sscanf) and the compositor (AlphaBlend,                   *)
(* AlphaComposeBackground).  at() is a read of the store and is an         *)
(* operator here; the calls that change the store are actions.             *)
(*                                                                         *)
(* An rgba_t is a uint32_t.  It is written here as the tuple of its four   *)
(* bytes, least significant first: <<v & 0xff, (v >> 8) & 0xff,            *)
(* (v >> 16) & 0xff, v >> 24>>.  The host is little-endian, so htole32 and *)
(* le32toh leave the word as it is (framebuffer.cc:93, "NOP on common LE   *)
(* platforms").                                                            *)
(***************************************************************************)
EXTENDS Integers, Sequences, FiniteSets, TLC

VARIABLES
    width_,     \* Framebuffer::width_
    height_,    \* Framebuffer::height_
    pixels_,    \* Framebuffer::pixels_ : [0 .. width_*height_ - 1 -> rgba_t]
    NDEBUG,     \* the build: TRUE when assert() is compiled out
    aborted,    \* an assert() has failed and the process is gone
    corrupt,    \* a store outside pixels_[] has happened (undefined behaviour)
    call,       \* the last call on the store, its arguments, the store before it
    nset,       \* number of SetPixel calls so far
    flattened,  \* the owner has called AlphaComposeBackground on this store
    color,      \* ParseColor: its argument, a sequence of characters or NULL
    rgb,        \* ParseColor: the locals r, g, b
    parsed,     \* ParseColor: the rgba_t it returned
    stderr_,    \* ParseColor: what it printed on stderr
    ppc,        \* ParseColor: "call" before the call, "done" after it
    written,    \* the form and the channels the text was written for
    blend       \* AlphaBlend alone: its arguments and its result

vars == <<width_, height_, pixels_, NDEBUG, aborted, corrupt, call,
          nset, flattened, color, rgb, parsed, stderr_, ppc, written, blend>>

storeVars == <<width_, height_, pixels_, NDEBUG, aborted, corrupt, call,
               nset, flattened>>
parseVars == <<color, rgb, parsed, stderr_, ppc, written>>

-----------------------------------------------------------------------------
(* Bounds of the model.                                                    *)

MaxW == 3
MaxH == 3
MaxSets == 1

-----------------------------------------------------------------------------
(* rgba_t and to_rgba.                                                     *)

\* Framebuffer::to_rgba(uint8_t r, g, b, a): the arguments are converted to
\* uint8_t (mod 256), r goes to bits 0..7, g to 8..15, b to 16..23, a to 24..31.
to_rgba(r, g, b, a) == <<r % 256, g % 256, b % 256, a % 256>>

\* c >> 24, (c >> 0) & 0xff, (c >> 8) & 0xff, (c >> 16) & 0xff
Alpha(c) == c[4]
Red(c)   == c[1]
Green(c) == c[2]
Blue(c)  == c[3]

-----------------------------------------------------------------------------
(* The pixel store.                                                        *)

\* A mutant of Index: the stride is one pixel short.
IndexShortStride(x, y) == (width_ - 1) * y + x

\* width_ * y + x, the subscript of pixels_ in SetPixel and at.
Index(x, y) == width_ * y + x

\* A mutant of InBounds: only the subscript is checked against the array.
InBoundsOfArray(x, y) == Index(x, y) >= 0 /\ Index(x, y) < width_ * height_

\* The negation of SetPixel's early return, and at()'s assertion.
InBounds(x, y) == x >= 0 /\ x < width_ /\ y >= 0 /\ y < height_

\* memset(pixels_, 0, ...) over w*h pixels
Cleared(w, h) == [i \in 0 .. w * h - 1 |-> <<0, 0, 0, 0>>]

\* pixels_[width_ * y + x] read from the store `p`
at(p, x, y) == p[Index(x, y)]

\* Values a caller writes: opaque, transparent with colour, translucent.
PixelValues ==
    { to_rgba(10, 20, 30, 255), to_rgba(200, 100, 50, 0),
      to_rgba(255, 0, 128, 128) }

\* Values handed to AlphaComposeBackground as background and as pattern.
Backgrounds ==
    { to_rgba(0, 64, 255, 255), to_rgba(9, 9, 9, 0), to_rgba(90, 80, 70, 127) }
Patterns ==
    { to_rgba(255, 128, 1, 255), to_rgba(7, 7, 7, 254), to_rgba(0, 0, 0, 0) }

-----------------------------------------------------------------------------
(* The compositor.                                                         *)

\* The square root of n by bisection on the bits of the root, largest first.
RECURSIVE SqrtBits(_, _, _)
SqrtBits(n, k, bit) ==
    IF bit = 0 THEN k
    ELSE IF (k + bit) * (k + bit) <= n
         THEN SqrtBits(n, k + bit, bit \div 2)
         ELSE SqrtBits(n, k, bit \div 2)

\* A mutant of sqrtf_trunc: the root is rounded to nearest, not truncated.
sqrtf_round(n) ==
    LET k == SqrtBits(n, 0, 2048)
    IN  IF n - k * k > k THEN k + 1 ELSE k

\* out[i] = sqrtf(n): n is at most 255*255 here, so it converts to float
\* exactly; sqrtf is correctly rounded, and for k <= 255 the root of k*k - 1
\* lies 1/(2k) > 2^-9 below k, far more than half an ulp (2^-17), so the
\* conversion of the float to uint32_t (truncation) gives the integer part of
\* the real square root.
sqrtf_trunc(n) == SqrtBits(n, 0, 2048)

\* fgc[i]*fgc[i] * alpha + bg[i] * (0xFF - alpha), in uint32_t: at most
\* 255*255*255, so the 32 bits never wrap.
WeightedSum(fgc, alpha, bg) == fgc * fgc * alpha + bg * (255 - alpha)

\* One channel of AlphaBlend's loop.
BlendChannel(fgc, alpha, bg) == sqrtf_trunc(WeightedSum(fgc, alpha, bg) \div 255)

\* AlphaBlend(const uint32_t *bg, rgba_t c); bg is a tuple of three uint32_t.
AlphaBlend(bg, c) ==
    LET alpha == Alpha(c)
    IN  IF alpha = 255 THEN c
        ELSE to_rgba(BlendChannel(Red(c), alpha, bg[1]),
                     BlendChannel(Green(c), alpha, bg[2]),
                     BlendChannel(Blue(c), alpha, bg[3]),
                     255)

\* A mutant of Linear: the channels are not squared.
LinearNotSquared(col) == <<Red(col), Green(col), Blue(col)>>

\* linear_bg[] and linear_pattern[]: each channel of the colour, squared.
Linear(col) == <<Red(col) * Red(col), Green(col) * Green(col), Blue(col) * Blue(col)>>

\* bg_choice[2] = { linear_bg, linear_bg }, its second entry replaced by
\* linear_pattern when the pattern's alpha is 0xff.  (C's bg_choice[k] is
\* bg_choice(..)[k + 1] here.)
bg_choice(bgcolor, pattern_col) ==
    <<Linear(bgcolor),
      IF Alpha(pattern_col) = 255 THEN Linear(pattern_col) ELSE Linear(bgcolor)>>

\* A mutant of Composed: the checkerboard cells are 2 pixels wide.
ComposedWideCells(p, w, bgcolor, pattern_col) ==
    [i \in DOMAIN p |->
        AlphaBlend(bg_choice(bgcolor, pattern_col)
                       [((((i % w) \div 2) + (i \div w)) % 2) + 1], p[i])]

\* The loop of AlphaComposeBackground over a store `p` of width w: pos runs
\* over the array in row-major order, so pos = w*y + x.
Composed(p, w, bgcolor, pattern_col) ==
    [i \in DOMAIN p |->
        AlphaBlend(bg_choice(bgcolor, pattern_col)
                       [(((i % w) + (i \div w)) % 2) + 1], p[i])]

\* A mutant of AssertFails: the assertion accepts any background.
AssertNeverFails(cond) == FALSE

\* assert(cond) aborts the process unless NDEBUG was defined for the build.
AssertFails(cond) == ~NDEBUG /\ ~cond

\* A mutant of NothingToDo: the early return is taken for no background.
NothingToDoNever(bgcolor) == FALSE

\* if (bg_alpha == 0x00) return;
NothingToDo(bgcolor) == Alpha(bgcolor) = 0

-----------------------------------------------------------------------------
(* C strings and sscanf.  A C string is the sequence of its characters,    *)
(* each a string of length one; the terminating NUL is the sequence's end. *)

\* The null pointer: no C string (every element of a C string is one character).
NULL == <<"(null)">>

DigitChars == <<"0", "1", "2", "3", "4", "5", "6", "7", "8", "9",
                "a", "b", "c", "d", "e", "f">>
UpperChars == <<"A", "B", "C", "D", "E", "F", "G", "H", "I", "J", "K", "L", "M",
                "N", "O", "P", "Q", "R", "S", "T", "U", "V", "W", "X", "Y", "Z">>
LowerChars == <<"a", "b", "c", "d", "e", "f", "g", "h", "i", "j", "k", "l", "m",
                "n", "o", "p", "q", "r", "s", "t", "u", "v", "w", "x", "y", "z">>

\* tolower(c)
LowerOf == [k \in 1 .. 26 |-> LowerChars[k]]
UpperIndex ==
    [c \in {UpperChars[k] : k \in 1 .. 26} |-> CHOOSE k \in 1 .. 26 : UpperChars[k] = c]
ToLower(c) == IF c \in DOMAIN UpperIndex THEN LowerOf[UpperIndex[c]] ELSE c

\* strcasecmp(a, b) == 0
strcasecmp_eq(a, b) ==
    /\ Len(a) = Len(b)
    /\ \A k \in 1 .. Len(a) : ToLower(a[k]) = ToLower(b[k])

\* isspace(c), for the characters the inputs use
IsSpace(c) == c \in {" ", "\t", "\n"}

\* The value of a digit, letters in either case; c is a digit of the base
\* (10 or 16) when its value is below the base.
DigitValue ==
    [c \in {DigitChars[k] : k \in 1 .. 16} \cup {UpperChars[k] : k \in 1 .. 6} |->
        IF c \in DOMAIN UpperIndex THEN 9 + UpperIndex[c]
        ELSE (CHOOSE k \in 1 .. 16 : DigitChars[k] = c) - 1]
IsDigit(c, base) == c \in DOMAIN DigitValue /\ DigitValue[c] < base
DigitVal(c) == DigitValue[c]

\* The directives of a scanf format: a character to match, white space
\* (matches any amount of it, none included), %d, %x and %<w>x.
Lit(text) == [k \in 1 .. Len(text) |-> [t |-> "lit", c |-> text[k], w |-> 0]]
Ws        == <<[t |-> "ws", c |-> " ", w |-> 0]>>
ConvD     == <<[t |-> "d", c |-> "d", w |-> 0]>>
ConvX(w)  == <<[t |-> "x", c |-> "x", w |-> w]>>

\* The position after the white space at position p of s.
RECURSIVE SkipSpace(_, _)
SkipSpace(s, p) ==
    IF p <= Len(s) /\ IsSpace(s[p]) THEN SkipSpace(s, p + 1) ELSE p

\* The digits of the base at position p of s, at most w of them (w < 0: no
\* limit): the position after them, their number and their value.
RECURSIVE ScanDigits(_, _, _, _, _, _)
ScanDigits(s, p, base, w, cnt, acc) ==
    IF p <= Len(s) /\ w # 0 /\ IsDigit(s[p], base)
    THEN ScanDigits(s, p + 1, base, w - 1, cnt + 1, acc * base + DigitVal(s[p]))
    ELSE [p |-> p, cnt |-> cnt, val |-> acc]

\* The result of one conversion from the digits scanned: with neither a
\* digit nor a 0x, a matching failure.
Converted(d, pfx, negative) ==
    [ok |-> pfx \/ d.cnt > 0, p |-> d.p, val |-> IF negative THEN 0 - d.val ELSE d.val]

\* s has 0x or 0X at position p, and the field width w leaves room for it.
HasHexPrefix(s, p, w) ==
    /\ (w < 0 \/ w >= 2)
    /\ p + 1 <= Len(s)
    /\ s[p] = "0"
    /\ s[p + 1] \in {"x", "X"}

\* A conversion after its sign, at position p with w of the width left.
ScanUnsigned(s, p, base, w, negative) ==
    IF base = 16 /\ HasHexPrefix(s, p, w)
    THEN Converted(ScanDigits(s, p + 2, base, w - 2, 0, 0), TRUE, negative)
    ELSE Converted(ScanDigits(s, p, base, w, 0, 0), FALSE, negative)

\* One %d or %x conversion at position p (white space already skipped, the
\* input not at its end): an optional sign, for %x an optional 0x, then
\* digits, all within the field width (0: none given).  As glibc scans it: a
\* 0x that fits the width is taken whatever follows it and alone gives 0;
\* without it, no digit is a matching failure.  The value is the one
\* strtol/strtoul give; the caller stores it in a uint32_t and to_rgba keeps
\* its low 8 bits.
ScanInt(s, p, base, width) ==
    IF s[p] \in {"+", "-"}
    THEN ScanUnsigned(s, p + 1, base, IF width = 0 THEN -1 ELSE width - 1, s[p] = "-")
    ELSE ScanUnsigned(s, p, base, IF width = 0 THEN -1 ELSE width, FALSE)

EOF == 0 - 1

\* What sscanf returns when it stops with the conversions in `done` assigned:
\* their number, or EOF when the input ended before the first one.
Stopped(done, atEnd) ==
    [n |-> IF atEnd /\ done = <<>> THEN EOF ELSE Len(done), v |-> done]

\* sscanf(s, fmt, &v[1], &v[2], ...) from directive i of fmt and position p
\* of s, with the conversions assigned so far in `done`: the value returned
\* and the values assigned, in order.
RECURSIVE Scan(_, _, _, _, _)
AfterConversion(s, fmt, i, done, r) ==
    IF r.ok THEN Scan(s, fmt, i + 1, r.p, Append(done, r.val))
    ELSE Stopped(done, FALSE)

ScanDirective(s, fmt, i, q, done, d) ==
    IF d.t = "ws" THEN Scan(s, fmt, i + 1, q, done)
    ELSE IF q > Len(s) THEN Stopped(done, TRUE)
    ELSE IF d.t = "lit"
         THEN IF s[q] = d.c THEN Scan(s, fmt, i + 1, q + 1, done)
              ELSE Stopped(done, FALSE)
    ELSE AfterConversion(s, fmt, i, done,
                         ScanInt(s, q, IF d.t = "d" THEN 10 ELSE 16, d.w))

Scan(s, fmt, i, p, done) ==
    IF i > Len(fmt) THEN Stopped(done, FALSE)
    ELSE ScanDirective(s, fmt, i,
                       IF fmt[i].t = "lit" THEN p ELSE SkipSpace(s, p),
                       done, fmt[i])

\* The locals after a sscanf that assigned v: a conversion that was not
\* reached leaves its local as it was.
Assigned(v, old) == [k \in 1 .. 3 |-> IF k <= Len(v) THEN v[k] ELSE old[k]]

Returned(res, old) == [n |-> res.n, rgb |-> Assigned(res.v, old)]

\* sscanf(s, fmt, &r, &g, &b) with the locals r, g, b holding `old`: the
\* value returned, and the locals afterwards.
sscanf(s, fmt, old) == Returned(Scan(s, fmt, 1, 1, <<>>), old)

\* "#%02x%02x%02x"
FormatHex == Lit(<<"#">>) \o ConvX(2) \o ConvX(2) \o ConvX(2)

\* "rgb(%d, %d, %d)"
FormatRgbDec ==
    Lit(<<"r", "g", "b", "(">>) \o ConvD \o Lit(<<",">>) \o Ws \o ConvD
    \o Lit(<<",">>) \o Ws \o ConvD \o Lit(<<")">>)

\* "rgb(0x%x, 0x%x, 0x%x)"
FormatRgbHex ==
    Lit(<<"r", "g", "b", "(", "0", "x">>) \o ConvX(0)
    \o Lit(<<",">>) \o Ws \o Lit(<<"0", "x">>) \o ConvX(0)
    \o Lit(<<",">>) \o Ws \o Lit(<<"0", "x">>) \o ConvX(0) \o Lit(<<")">>)

-----------------------------------------------------------------------------
(* The colour parser.                                                      *)

\* html_colors[] of html-colors.inc: { name, translation } pairs, the
\* translation a "#rrggbb" string.  Three of its entries.
html_colors ==
    << [name |-> <<"r", "e", "d">>,
        translation |-> <<"#", "f", "f", "0", "0", "0", "0">>],
       [name |-> <<"b", "l", "u", "e">>,
        translation |-> <<"#", "0", "0", "0", "0", "f", "f">>],
       [name |-> <<"t", "a", "n">>,
        translation |-> <<"#", "d", "2", "b", "4", "8", "c">>] >>

\* The loop over html_colors: the translation of the first entry whose name
\* equals the text, case ignored; the text itself when there is none.
Translated(text) ==
    IF \E k \in 1 .. Len(html_colors) : strcasecmp_eq(text, html_colors[k].name)
    THEN html_colors[CHOOSE k \in 1 .. Len(html_colors) :
                        /\ strcasecmp_eq(text, html_colors[k].name)
                        /\ \A j \in 1 .. k - 1 :
                              ~strcasecmp_eq(text, html_colors[j].name)].translation
    ELSE text

\* A mutant of EarlyReturn: the empty string returns early too.
EarlyReturnOnEmpty(text) == text = NULL \/ text = <<>>

\* if (!color) return to_rgba(0, 0, 0, 0);
EarlyReturn(text) == text = NULL

\* A mutant of Matched: any non-zero value of sscanf counts as a match.
MatchedNonZero(n) == n # 0

\* sscanf(...) == 3
Matched(n) == n = 3

\* One operand of the ||: skipped when an earlier one matched, else the
\* sscanf and its comparison with 3.
Matching(res) == [ok |-> Matched(res.n), rgb |-> res.rgb]

OrElse(before, text, fmt) ==
    IF before.ok THEN before ELSE Matching(sscanf(text, fmt, before.rgb))

\* ParseColor from its first sscanf on, for the text after the lookup and
\* the locals r, g, b as they are on entry: whether a pattern matched, and
\* the locals then.
Scanned(text, locals) ==
    OrElse(OrElse(OrElse([ok |-> FALSE, rgb |-> locals], text, FormatHex),
                  text, FormatRgbDec),
           text, FormatRgbHex)

\* fprintf(stderr, "Couldn't parse color '%s'\n", color)
Diagnostic(text) == <<"Couldn't parse color '", text, "'\n">>

Finish(sc, text) ==
    /\ rgb' = sc.rgb
    /\ IF sc.ok
         THEN /\ parsed' = to_rgba(sc.rgb[1], sc.rgb[2], sc.rgb[3], 255)
              /\ UNCHANGED stderr_
         ELSE /\ parsed' = to_rgba(0, 0, 0, 0)
              /\ stderr_' = Append(stderr_, Diagnostic(text))

ParseText(text) == Finish(Scanned(text, rgb), text)

ParseColor ==
    /\ ppc = "call"
    /\ ppc' = "done"
    /\ IF EarlyReturn(color)
         THEN /\ parsed' = to_rgba(0, 0, 0, 0)
              /\ UNCHANGED <<rgb, stderr_>>
         ELSE ParseText(Translated(color))
    /\ UNCHANGED <<color, written>>
    /\ UNCHANGED storeVars /\ UNCHANGED blend

-----------------------------------------------------------------------------
(* The calls on a Framebuffer.                                             *)

Running == ~aborted /\ ~corrupt

Record(op, x, y, a, b) ==
    [op |-> op, x |-> x, y |-> y, a |-> a, b |-> b, pre |-> pixels_]

SetPixel(x, y, value) ==
    /\ Running
    /\ nset < MaxSets
    /\ nset' = nset + 1
    /\ call' = Record("SetPixel", x, y, value, value)
    /\ IF ~InBounds(x, y)
         THEN UNCHANGED <<pixels_, corrupt>>
         ELSE IF Index(x, y) \in DOMAIN pixels_
              THEN /\ pixels_' = [pixels_ EXCEPT ![Index(x, y)] = value]
                   /\ UNCHANGED corrupt
              ELSE /\ corrupt' = TRUE
                   /\ UNCHANGED pixels_
    /\ UNCHANGED <<width_, height_, NDEBUG, aborted, flattened>>
    /\ UNCHANGED parseVars /\ UNCHANGED blend

AlphaComposeBackground(bgcolor, pattern_col) ==
    /\ Running
    /\ ~flattened
    /\ flattened' = TRUE
    /\ call' = Record("AlphaComposeBackground", 0, 0, bgcolor, pattern_col)
    /\ IF NothingToDo(bgcolor)
         THEN UNCHANGED <<pixels_, aborted>>
         ELSE IF AssertFails(Alpha(bgcolor) = 255)
              THEN /\ aborted' = TRUE
                   /\ UNCHANGED pixels_
              ELSE /\ pixels_' = Composed(pixels_, width_, bgcolor, pattern_col)
                   /\ UNCHANGED aborted
    /\ UNCHANGED <<width_, height_, NDEBUG, corrupt, nset>>
    /\ UNCHANGED parseVars /\ UNCHANGED blend

-----------------------------------------------------------------------------
(* The texts handed to ParseColor.                                         *)

NParse == 2

\* Channel values spread over 0 .. 255, both ends included.
ParseSamples == {(k * 255) \div NParse : k \in 0 .. NParse}

\* r, g, b: one channel runs over every value, the other two over the samples.
Triples ==
    {<<v, a, b>> : v \in 0 .. 255, a \in ParseSamples, b \in ParseSamples}
    \cup {<<a, v, b>> : v \in 0 .. 255, a \in ParseSamples, b \in ParseSamples}
    \cup {<<a, b, v>> : v \in 0 .. 255, a \in ParseSamples, b \in ParseSamples}

\* n in two hex digits; n in decimal, without leading zeros.
Hex2(n) == <<DigitChars[(n \div 16) + 1], DigitChars[(n % 16) + 1]>>
DecNum(n) ==
    IF n < 10 THEN <<DigitChars[n + 1]>>
    ELSE IF n < 100 THEN <<DigitChars[(n \div 10) + 1], DigitChars[(n % 10) + 1]>>
    ELSE <<DigitChars[(n \div 100) + 1], DigitChars[((n \div 10) % 10) + 1],
           DigitChars[(n % 10) + 1]>>

\* "#RRGGBB", "rgb(R, G, B)" and "rgb(0xRR, 0xGG, 0xBB)" written for t = <<r, g, b>>
HexText(t) == <<"#">> \o Hex2(t[1]) \o Hex2(t[2]) \o Hex2(t[3])
RgbDecText(t) ==
    <<"r", "g", "b", "(">> \o DecNum(t[1]) \o <<",", " ">> \o DecNum(t[2])
    \o <<",", " ">> \o DecNum(t[3]) \o <<")">>
RgbHexText(t) ==
    <<"r", "g", "b", "(", "0", "x">> \o Hex2(t[1]) \o <<",", " ", "0", "x">>
    \o Hex2(t[2]) \o <<",", " ", "0", "x">> \o Hex2(t[3]) \o <<")">>

FormText(form, t) ==
    CASE form = "hex"    -> HexText(t)
      [] form = "rgbdec" -> RgbDecText(t)
      [] form = "rgbhex" -> RgbHexText(t)

\* Other texts:
\*   ""
\*   "not-a-color"
\*   "#ff0000zz"
\*   "rgb(255, 0, 0"
\*   "rgb(0xff, 0x00, 0x00"
\*   "rgb(255, 0, 0)!"
\*   "#ff00"
\*   "#"
\*   "rgb("
\*   "rgb(1, 2"
\*   "rgb(1,2,3)"
\*   "#FF0000"
\*   "#12345"
\*   "red"
\*   "RED"
\*   "Blue"
\*   "reddish"
\*   " #ff0000"
\*   "#ff 00 00"
\*   "rgb(300, 0, 0)"
\*   "rgb(-1, 0, 0)"
\*   "rgb(0xff, 0, 0)"
\*   "rgb(12, 0x34, 56)"
\*   "0xff0000"
\*   "rgb 1 2 3"
OtherTexts ==
    { <<>>,
      <<"n", "o", "t", "-", "a", "-", "c", "o", "l", "o", "r">>,
      <<"#", "f", "f", "0", "0", "0", "0", "z", "z">>,
      <<"r", "g", "b", "(", "2", "5", "5", ",", " ", "0", ",", " ", "0">>,
      <<"r", "g", "b", "(", "0", "x", "f", "f", ",", " ", "0", "x", "0", "0", ",", " ", "0", "x", "0", "0">>,
      <<"r", "g", "b", "(", "2", "5", "5", ",", " ", "0", ",", " ", "0", ")", "!">>,
      <<"#", "f", "f", "0", "0">>,
      <<"#">>,
      <<"r", "g", "b", "(">>,
      <<"r", "g", "b", "(", "1", ",", " ", "2">>,
      <<"r", "g", "b", "(", "1", ",", "2", ",", "3", ")">>,
      <<"#", "F", "F", "0", "0", "0", "0">>,
      <<"#", "1", "2", "3", "4", "5">>,
      <<"r", "e", "d">>,
      <<"R", "E", "D">>,
      <<"B", "l", "u", "e">>,
      <<"r", "e", "d", "d", "i", "s", "h">>,
      <<" ", "#", "f", "f", "0", "0", "0", "0">>,
      <<"#", "f", "f", " ", "0", "0", " ", "0", "0">>,
      <<"r", "g", "b", "(", "3", "0", "0", ",", " ", "0", ",", " ", "0", ")">>,
      <<"r", "g", "b", "(", "-", "1", ",", " ", "0", ",", " ", "0", ")">>,
      <<"r", "g", "b", "(", "0", "x", "f", "f", ",", " ", "0", ",", " ", "0", ")">>,
      <<"r", "g", "b", "(", "1", "2", ",", " ", "0", "x", "3", "4", ",", " ", "5", "6", ")">>,
      <<"0", "x", "f", "f", "0", "0", "0", "0">>,
      <<"r", "g", "b", " ", "1", " ", "2", " ", "3">> }

\* What the locals r, g, b may hold on entry: they are not initialized.
Uninitialized == { <<0, 0, 0>>, <<171, 205, 239>> }

-----------------------------------------------------------------------------
(* The specifications.                                                     *)

Zero == <<0, 0, 0, 0>>

StoreInit(maxw, maxh) ==
    /\ width_ \in 1 .. maxw
    /\ height_ \in 1 .. maxh
    /\ pixels_ = Cleared(width_, height_)
    /\ NDEBUG \in BOOLEAN
    /\ aborted = FALSE
    /\ corrupt = FALSE
    /\ call = [op |-> "Framebuffer", x |-> width_, y |-> height_, a |-> Zero,
               b |-> Zero, pre |-> Cleared(width_, height_)]
    /\ nset = 0
    /\ flattened = FALSE

ParseIdle ==
    /\ color = NULL /\ rgb = <<0, 0, 0>> /\ parsed = Zero
    /\ stderr_ = <<>> /\ ppc = "idle" /\ written = <<"none", <<0, 0, 0>>>>

BlendIdle == blend = [pc |-> "idle", bg |-> Zero, c |-> Zero, out |-> Zero]

\* Framebuffer(w, h): the fields set, the array cleared.
Init == StoreInit(MaxW, MaxH) /\ ParseIdle /\ BlendIdle

Next ==
    \/ \E x \in -1 .. width_, y \in -1 .. height_, value \in PixelValues :
           SetPixel(x, y, value)
    \/ \E bgcolor \in Backgrounds, pattern_col \in Patterns :
           AlphaComposeBackground(bgcolor, pattern_col)

Spec == Init /\ [][Next]_vars

\* The checkerboard on larger stores: translucent pixels written in bounds,
\* then composed against an opaque background.
BoardW == 4
BoardH == 5

InitBoard == StoreInit(BoardW, BoardH) /\ ParseIdle /\ BlendIdle

NextBoard ==
    \/ \E x \in 0 .. width_ - 1, y \in 0 .. height_ - 1 :
           SetPixel(x, y, to_rgba(255, 0, 128, 128))
    \/ \E bgcolor \in {c \in Backgrounds : Alpha(c) = 255}, pattern_col \in Patterns :
           AlphaComposeBackground(bgcolor, pattern_col)

SpecBoard == InitBoard /\ [][NextBoard]_vars

\* ParseColor applied to one text.
InitParse ==
    /\ StoreInit(1, 1) /\ NDEBUG = FALSE /\ BlendIdle
    /\ \/ /\ written \in {"hex", "rgbdec", "rgbhex"} \X Triples
          /\ color = FormText(written[1], written[2])
       \/ /\ written = <<"other", <<0, 0, 0>>>>
          /\ color \in OtherTexts \cup {NULL}
    /\ rgb \in Uninitialized
    /\ parsed = Zero
    /\ stderr_ = <<>>
    /\ ppc = "call"

NextParse == ParseColor

SpecParse == InitParse /\ [][NextParse]_vars

\* AlphaBlend applied to one pixel and one backdrop.
NChan == 32

ChanSamples == {(k * 255) \div (NChan - 1) : k \in 0 .. NChan - 1}

InitBlend ==
    /\ StoreInit(1, 1) /\ NDEBUG = FALSE /\ ParseIdle
    /\ \E s \in ChanSamples, b \in ChanSamples, alpha \in 0 .. 255 :
          blend = [pc |-> "call",
                   bg |-> to_rgba(b, 255 - b, (b + 128) % 256, 255),
                   c  |-> to_rgba(s, (s + 128) % 256, 255 - s, alpha),
                   out |-> Zero]

Blend ==
    /\ blend.pc = "call"
    /\ blend' = [blend EXCEPT !.pc = "done",
                              !.out = AlphaBlend(Linear(blend.bg), blend.c)]
    /\ UNCHANGED storeVars /\ UNCHANGED parseVars

NextBlend == Blend

SpecBlend == InitBlend /\ [][NextBlend]_vars

-----------------------------------------------------------------------------
(* The claims.                                                             *)

InRange(x, y) == 0 <= x /\ x < width_ /\ 0 <= y /\ y < height_
IsCompose == call.op = "AlphaComposeBackground"
IsSet == call.op = "SetPixel"

\* C1: after SetPixel(x, y, p) with (x, y) inside the framebuffer, at(x, y)
\* returns p and at(x', y') returns what it returned before the call for
\* every other (x', y') inside the framebuffer.
C1_SetPixelThenAt ==
    (IsSet /\ InRange(call.x, call.y)) =>
        /\ ~corrupt
        /\ \A x \in 0 .. width_ - 1, y \in 0 .. height_ - 1 :
              at(pixels_, x, y) =
                  IF x = call.x /\ y = call.y THEN call.a ELSE at(call.pre, x, y)

\* A pixel written over a store that already holds other values, read back.
C1_Witness ==
    /\ IsSet /\ InRange(call.x, call.y)
    /\ width_ >= 2 /\ height_ >= 2
    /\ call.x = width_ - 1 /\ call.y = 1
    /\ at(pixels_, call.x, call.y) = call.a
    /\ at(call.pre, call.x, call.y) # call.a
    /\ at(pixels_, 0, 0) # Zero
    /\ at(pixels_, 0, 0) # call.a

\* C2: SetPixel(x, y, p) with (x, y) outside the framebuffer leaves every
\* pixel of the store as it was, also when width*y + x is a subscript of
\* the array.
C2_SetPixelClipped ==
    (IsSet /\ ~InRange(call.x, call.y)) => (pixels_ = call.pre /\ ~corrupt)

\* SetPixel at x = width on a row that is not the last: width*y + x is the
\* first pixel of the next row, which holds another value than the one given.
C2_Witness ==
    /\ IsSet /\ call.x = width_ /\ call.y >= 0 /\ call.y < height_ - 1
    /\ call.pre[width_ * call.y + call.x] # call.a
    /\ call.pre[width_ * call.y + call.x] # Zero
    /\ pixels_ = call.pre

C4_ThreeFormsAgree ==
    (ppc = "done" /\ written[1] \in {"hex", "rgbdec", "rgbhex"}) =>
        /\ parsed = <<written[2][1], written[2][2], written[2][3], 255>>
        /\ stderr_ = <<>>

\* "rgb(0xff, 0x00, 0x00)" parsed to (255,0,0,255): the second pattern has
\* scanned its first field (0) before the third pattern matches.
C4_Witness ==
    /\ ppc = "done"
    /\ color = <<"r", "g", "b", "(", "0", "x", "f", "f", ",", " ", "0", "x", "0", "0",
                 ",", " ", "0", "x", "0", "0", ")">>
    /\ sscanf(color, FormatRgbDec, <<171, 205, 239>>) = [n |-> 1, rgb |-> <<0, 205, 239>>]
    /\ parsed = <<255, 0, 0, 255>>
    /\ stderr_ = <<>>

\* The text is a name of the table.
IsName(text) ==
    \E k \in 1 .. Len(html_colors) : strcasecmp_eq(text, html_colors[k].name)

\* The text is exactly "#" and six hex digits.
IsHexForm(text) ==
    /\ Len(text) = 7
    /\ text[1] = "#"
    /\ \A k \in 2 .. 7 : IsDigit(text[k], 16)

\* The field is a decimal integer; the field is 0x and hex digits.
IsDecField(f) ==
    LET g == IF Len(f) >= 1 /\ f[1] \in {"+", "-"} THEN Tail(f) ELSE f
    IN  Len(g) >= 1 /\ \A k \in 1 .. Len(g) : IsDigit(g[k], 10)
IsHexField(f) ==
    /\ Len(f) >= 3
    /\ f[1] = "0" /\ f[2] = "x"
    /\ \A k \in 3 .. Len(f) : IsDigit(f[k], 16)

\* The text is exactly "rgb(" f1 "," f2 "," f3 ")", a blank allowed after
\* each comma, every field a decimal integer or every field a hex integer.
IsRgbForm(text) ==
    /\ Len(text) >= 10
    /\ SubSeq(text, 1, 4) = <<"r", "g", "b", "(">>
    /\ text[Len(text)] = ")"
    /\ LET body   == SubSeq(text, 5, Len(text) - 1)
           commas == {k \in 1 .. Len(body) : body[k] = ","}
       IN  /\ Cardinality(commas) = 2
           /\ LET c1 == CHOOSE k \in commas : \A j \in commas : k <= j
                  c2 == CHOOSE k \in commas : \A j \in commas : k >= j
                  strip(f) == IF Len(f) >= 1 /\ f[1] = " " THEN Tail(f) ELSE f
                  f1 == SubSeq(body, 1, c1 - 1)
                  f2 == strip(SubSeq(body, c1 + 1, c2 - 1))
                  f3 == strip(SubSeq(body, c2 + 1, Len(body)))
              IN  \/ IsDecField(f1) /\ IsDecField(f2) /\ IsDecField(f3)
                  \/ IsHexField(f1) /\ IsHexField(f2) /\ IsHexField(f3)

\* C5: for every text that is not empty, not a name of the table and not
\* exactly one of the three forms, ParseColor prints the diagnostic naming
\* the text and returns (0,0,0,0).
C5_AnythingElseFails ==
    (/\ ppc = "done"
     /\ color # NULL /\ color # <<>>
     /\ ~IsName(color) /\ ~IsHexForm(color) /\ ~IsRgbForm(color)) =>
        (parsed = Zero /\ stderr_ = << <<"Couldn't parse color '", color, "'\n">> >>)

\* The backdrop of the pixel at (x, y): the pattern on odd x + y when the
\* pattern is opaque, the background otherwise.
Backdrop(x, y) ==
    IF Alpha(call.b) = 255 /\ (x + y) % 2 = 1 THEN call.b ELSE call.a

\* C6: AlphaComposeBackground with an opaque background leaves every pixel
\* of alpha 255 as it was and turns every pixel of alpha 0 into the red,
\* green and blue of its backdrop with alpha 255.
C6_OpaqueKeptTransparentReplaced ==
    (IsCompose /\ Alpha(call.a) = 255) =>
        \A x \in 0 .. width_ - 1, y \in 0 .. height_ - 1 :
            LET old == call.pre[width_ * y + x]
                new == pixels_[width_ * y + x]
            IN  /\ Alpha(old) = 255 => new = old
                /\ Alpha(old) = 0 =>
                      new = <<Backdrop(x, y)[1], Backdrop(x, y)[2],
                              Backdrop(x, y)[3], 255>>

\* A checkerboard composed over a store holding a transparent pixel with
\* colour of its own on an odd position.
C6_Witness ==
    /\ IsCompose /\ Alpha(call.a) = 255 /\ Alpha(call.b) = 255
    /\ width_ >= 2
    /\ call.pre[1] = <<200, 100, 50, 0>>
    /\ pixels_[1] = <<call.b[1], call.b[2], call.b[3], 255>>
    /\ pixels_[0] = <<call.a[1], call.a[2], call.a[3], 255>>

\* C7: AlphaComposeBackground with a background of alpha 0 leaves every
\* pixel of the store as it was, whatever the pattern.
C7_TransparentBackgroundNoOp ==
    (IsCompose /\ Alpha(call.a) = 0) => pixels_ = call.pre

\* A background of alpha 0 with an opaque pattern, over a store that holds
\* a translucent pixel.
C7_Witness ==
    /\ IsCompose /\ Alpha(call.a) = 0 /\ Alpha(call.b) = 255
    /\ \E i \in DOMAIN pixels_ : Alpha(pixels_[i]) = 128
    /\ pixels_ = call.pre
    /\ ~aborted

\* C8, as claimed: AlphaComposeBackground with a background of alpha
\* 1 .. 254 fails its precondition check and composes nothing.
C8_SemiTransparentAborts ==
    (IsCompose /\ Alpha(call.a) # 0 /\ Alpha(call.a) # 255) =>
        (aborted /\ pixels_ = call.pre)

\* C8, amended: in a build with assertions (NDEBUG not defined) it fails the
\* assertion with the store untouched; in a build with NDEBUG it returns
\* with every pixel of the store opaque.
C8_AbortsUnlessNDEBUG ==
    (IsCompose /\ Alpha(call.a) # 0 /\ Alpha(call.a) # 255) =>
        IF NDEBUG
        THEN ~aborted /\ \A i \in DOMAIN pixels_ : Alpha(pixels_[i]) = 255
        ELSE aborted /\ pixels_ = call.pre

C8_Witness ==
    /\ IsCompose /\ Alpha(call.a) = 127 /\ ~NDEBUG
    /\ aborted
    /\ \E i \in DOMAIN pixels_ : Alpha(pixels_[i]) # 255

\* C9: in AlphaComposeBackground(A, B) with A opaque, the pixel at (x, y) is
\* blended with A when x + y is even, with B when x + y is odd and B is
\* opaque, and with A everywhere when B is not opaque.
C9_Checkerboard ==
    (IsCompose /\ Alpha(call.a) = 255) =>
        \A x \in 0 .. width_ - 1, y \in 0 .. height_ - 1 :
            at(pixels_, x, y) =
                AlphaBlend(Linear(Backdrop(x, y)), at(call.pre, x, y))

\* On a store reaching (3, 4): the transparent pixel at (2, 4) has become A,
\* the one at (3, 4) has become B.
C9_Witness ==
    /\ IsCompose /\ Alpha(call.a) = 255 /\ Alpha(call.b) = 255
    /\ width_ >= 4 /\ height_ >= 5
    /\ call.a # call.b
    /\ at(call.pre, 2, 4) = Zero /\ at(call.pre, 3, 4) = Zero
    /\ at(pixels_, 2, 4) = call.a
    /\ at(pixels_, 3, 4) = call.b
    /\ \E i \in DOMAIN pixels_ : Alpha(call.pre[i]) = 128

\* The channel k written for source channel s, alpha a and backdrop channel
\* b is the integer part of sqrt((s*s*a + b*b*(255 - a)) / 255), the
\* weighted sum is below 2^32 and k is at most 255.
IsBlendOf(k, s, a, b) ==
    LET sum == s * s * a + b * b * (255 - a)
    IN  /\ sum \div 65536 < 65536
        /\ 0 <= k /\ k <= 255
        /\ 255 * k * k <= sum
        /\ sum < 255 * (k + 1) * (k + 1)

\* C10: for every pixel of alpha 0 .. 254, each channel AlphaBlend writes
\* is the integer part of the real-valued formula, and the alpha is 255.
C10_BlendFormula ==
    (blend.pc = "done" /\ Alpha(blend.c) # 255) =>
        /\ Alpha(blend.out) = 255
        /\ \A i \in 1 .. 3 :
              IsBlendOf(blend.out[i], blend.c[i], Alpha(blend.c), blend.bg[i])

\* A blend whose weighted sum is not a multiple of 255 and whose quotient is
\* not a square: both the division and the root truncate.
C10_Witness ==
    /\ blend.pc = "done"
    /\ Alpha(blend.c) = 100
    /\ LET sum == blend.c[1] * blend.c[1] * 100 + blend.bg[1] * blend.bg[1] * 155
       IN  /\ sum % 255 # 0
           /\ blend.out[1] * blend.out[1] < sum \div 255
    /\ blend.out[1] > 0

=============================================================================
